---- MODULE Spec2Model ----
(***************************************************************************)
(* The Numerauto daemon (src/numerauto/numerauto.py) as a state machine.   *)
(*                                                                         *)
(* One process runs Numerauto.run(): it loads state.pickle, dispatches     *)
(* on_start, processes the current round if it is not processed yet, and   *)
(* then loops over wait_till_next_round / run_new_round until              *)
(* exit_requested is set by the signal handler.  The environment is the    *)
(* Numerai API (the current round number, answers that may be missing,     *)
(* datasets that may be invalid), the signal that sets exit_requested, the *)
(* event handlers (which may raise) and the operating system (which may    *)
(* kill the process; the process may be started again).                    *)
(*                                                                         *)
(* pc names the statement of numerauto.py the process is about to execute. *)
(***************************************************************************)
EXTENDS Integers, Sequences, FiniteSets, TLC

\* ------------------------------------------------------------------ bounds
\* The API serves rounds 1 .. MaxRound (it starts at round 1).
MaxRound == 3
\* Starts of the process after the first one.
MaxRestarts == 1
\* Round-info requests the API leaves unanswered (answers None), in total.
MaxApiFailures == 1
\* Downloads of a dataset that is not valid (or that fail), in total.
MaxInvalid == 1
\* Handlers registered before run().
NumHandlers == 2
\* time.sleep(1) suspends for at least one second; it lasts exactly one second
\* for the first MaxShortSleeps sleeps of a wait, afterwards up to the wait's end.
MaxShortSleeps == 1
\* The closeTime read at line 198 is at most MaxRemaining seconds away from now,
\* before or after.
MaxRemaining == 700

\* ------------------------------------------------------- program constants
None == -1
RetrySeconds == 600
ApiWaitSeconds == 60
RepollSeconds == 60
EarlySeconds == 360
SlackSeconds == 5
SleepSeconds == 1

\* Seconds from now to the round's closeTime, as an answer of the API gives it.
CloseIns == {600, 120, -10}

VARIABLES
    pc,                 \* statement about to execute, or "done" / "failed" / "killed"
    exit_requested,     \* self.exit_requested
    event_handlers,     \* self.event_handlers: the handler objects, in list order
    round_number,       \* self.round_number
    persistent_state,   \* self.persistent_state
    state_pickle,       \* the file state.pickle
    dataset_path,       \* self.dataset_path: round of the last downloaded zip
    zip_exists,         \* whether the file at dataset_path exists
    valid,              \* run_new_round's local
    api_round,          \* the round the API reports
    round_info,         \* wait_till_next_round's local (its number)
    new_round_info,     \* wait_till_next_round's local (its number)
    remaining,          \* dt_round_close - now, in seconds
    seconds,            \* interruptible_wait's argument
    elapsed,            \* interruptible_wait's dt_now - dt_start
    wait_ret,           \* statement interruptible_wait returns to
    disp_event,         \* the event being dispatched
    disp_idx,           \* index of the next handler in the dispatch loop
    iterated,           \* the list object the dispatch loop iterates over
    rebound,            \* self.event_handlers was bound to another list since
    snapshot,           \* self.event_handlers as it was when the loop started
    failure,            \* where an exception left run(), "" if none
    restarts,           \* starts of the process after the first
    api_failures,       \* unanswered requests so far
    invalid_datasets,   \* invalid downloads so far
    \* history
    trace,              \* events dispatched by this process: <<event, round>>
    calls,              \* handlers the dispatch loop in progress (or last run) called
    completed,          \* round events whose dispatch loop ended: <<event, round>>
    begun,              \* rounds whose on_new_training_data an ended process dispatched
    training_data,      \* training files compared so far: <<old, new, differs>>
    check_result,       \* check_new_training_data's result for the round in progress
    cancelled_in_retry, \* exit_requested was set during run_new_round's retry wait
    cancelled_in_round, \* exit_requested was set during a round's processing
    sleeps_after_exit   \* sleeps of the current wait begun with exit_requested set

vars == <<pc, exit_requested, event_handlers, round_number, persistent_state,
          state_pickle, dataset_path, zip_exists, valid, api_round, round_info,
          new_round_info, remaining, seconds, elapsed, wait_ret, disp_event,
          disp_idx, failure, restarts, api_failures, invalid_datasets, trace,
          calls, completed, begun, training_data, check_result,
          cancelled_in_retry, cancelled_in_round, sleeps_after_exit, iterated,
          rebound, snapshot>>

\* ------------------------------------------------------------------- state
PState(lrp, lrt) == [last_round_processed |-> lrp, last_round_trained |-> lrt]

\* state.pickle: absent, or the pickled dictionary.
Absent == [kind |-> "absent", dict |-> PState(None, None)]
Pickled(d) == [kind |-> "ok", dict |-> d]
\* state.pickle holding no complete pickle: no byte at all ("empty"), the first
\* bytes of a pickle ("truncated"), or bytes that are no pickle ("corrupt").
DamagedKinds == {"empty", "truncated", "corrupt"}
Damaged(k) == [kind |-> k, dict |-> PState(None, None)]

Terminated == {"done", "failed", "killed"}
Alive == pc \notin Terminated

Min(a, b) == IF a < b THEN a ELSE b

\* EventHandler objects: 1 .. NumHandlers have the names 1 .. NumHandlers, and
\* one more object has the name of the last of them (EventHandler.__init__
\* accepts every non-empty name).
HandlerObjects == 1 .. NumHandlers + 1
HandlerName(h) == IF h > NumHandlers THEN NumHandlers ELSE h
HandlerNames == {HandlerName(h) : h \in HandlerObjects}

\* The attributes __init__ sets and the environment at the start, before any
\* handler is added.
Constructed ==
    /\ exit_requested = FALSE
    /\ round_number = None
    /\ persistent_state = PState(None, None)
    /\ state_pickle = Absent
    /\ dataset_path = None
    /\ zip_exists = FALSE
    /\ valid = FALSE
    /\ api_round = 1
    /\ round_info = None
    /\ new_round_info = None
    /\ remaining = 0
    /\ seconds = 0
    /\ elapsed = 0
    /\ wait_ret = ""
    /\ disp_event = ""
    /\ disp_idx = 0
    /\ iterated = <<>>
    /\ rebound = FALSE
    /\ snapshot = <<>>
    /\ failure = ""
    /\ trace = <<>>
    /\ calls = <<>>
    /\ completed = {}
    /\ begun = {}
    /\ training_data = {}
    /\ check_result = "none"
    /\ cancelled_in_retry = FALSE
    /\ cancelled_in_round = FALSE
    /\ sleeps_after_exit = 0

\* run() is called with NumHandlers handlers of distinct names added.
Init ==
    /\ pc = "load_state"
    /\ event_handlers = [i \in 1 .. NumHandlers |-> i]
    /\ restarts = 0
    /\ api_failures = 0
    /\ invalid_datasets = 0
    /\ Constructed

\* ----------------------------------------------------------------- helpers
\* An uncaught exception leaves run(): the process ends without on_shutdown.
Fail(site) ==
    /\ pc' = "failed"
    /\ failure' = site

\* The statement that follows the dispatch loop of each event.
AfterDispatch(ev) ==
    CASE ev = "on_start" -> "get_current_round"
      [] ev = "on_round_begin" -> "check_new_training_data"
      [] ev = "on_new_training_data" -> "save_trained"
      [] ev = "on_new_tournament_data" -> "save_processed"
      [] ev = "on_shutdown" -> "final_save"

\* The dispatch loops that ended by their last handler's return, once the loop
\* of event ev of round rnd has.
Completed(ev, rnd) ==
    IF rnd = None THEN completed ELSE completed \cup {<<ev, rnd>>}

\* on_start .. on_new_tournament_data: log the event, start the loop over
\* self.event_handlers.
BeginDispatch(ev, rnd) ==
    /\ trace' = Append(trace, <<ev, rnd>>)
    /\ completed' = IF Len(event_handlers) = 0 THEN Completed(ev, rnd) ELSE completed
    /\ begun' = begun
    /\ iterated' = event_handlers
    /\ rebound' = FALSE
    /\ snapshot' = event_handlers
    /\ calls' = <<>>
    /\ disp_event' = ev
    /\ disp_idx' = 1
    /\ pc' = IF Len(event_handlers) = 0 THEN AfterDispatch(ev) ELSE "dispatch"

\* An answer of napi.get_current_round / get_current_round_details: the
\* current round, or None when the API does not respond.
ApiAnswers ==
    {api_round} \cup (IF api_failures < MaxApiFailures THEN {None} ELSE {})

CountFailure(ans) ==
    api_failures' = IF ans = None THEN api_failures + 1 ELSE api_failures

\* interruptible_wait(secs), called from the statement before ret.
EnterWait(secs, ret) ==
    /\ pc' = "interruptible_wait"
    /\ seconds' = secs
    /\ elapsed' = 0
    /\ wait_ret' = ret
    /\ sleeps_after_exit' = 0

\* Mutant of WaitInterval: the 360 seconds are compared with the time to the
\* close, not with seconds_wait.
WaitInterval_remaining(rem) ==
    LET seconds_wait == rem + SlackSeconds
    IN  IF rem > EarlySeconds
        THEN rem - EarlySeconds
        ELSE Min(seconds_wait, RepollSeconds)

\* Lines 215-222: the argument of interruptible_wait before a re-poll.
WaitInterval(rem) ==
    LET seconds_wait == rem + SlackSeconds
    IN  IF seconds_wait > EarlySeconds
        THEN seconds_wait - EarlySeconds
        ELSE Min(seconds_wait, RepollSeconds)

wait_vars == <<seconds, elapsed, wait_ret, sleeps_after_exit>>
disp_vars == <<disp_event, disp_idx, trace, calls, completed, begun,
               iterated, rebound, snapshot>>
wtnr_vars == <<round_info, new_round_info, remaining>>
data_vars == <<dataset_path, zip_exists, valid, training_data>>
ckpt_vars == <<persistent_state, state_pickle>>
budget_vars == <<restarts, api_failures, invalid_datasets>>
flag_vars == <<exit_requested, event_handlers, cancelled_in_retry, cancelled_in_round>>

\* ------------------------------------------------------------------- run()
\* Lines 341-347: open() raises FileNotFoundError for an absent file and
\* pickle.load raises EOFError for an empty one: both are caught.  For a
\* truncated or corrupt file pickle.load raises pickle.UnpicklingError, which no
\* except clause names.
LoadRaises(file) == file.kind \in {"truncated", "corrupt"}

\* Mutant of LoadState: last_round_trained is not read from the file.
LoadState_processed_only(file) ==
    IF file.kind \in {"absent", "empty"} THEN PState(None, None)
    ELSE PState(file.dict.last_round_processed, None)

\* load_state's result for a state.pickle file it can handle.
LoadState(file) ==
    IF file.kind \in {"absent", "empty"} THEN PState(None, None) ELSE file.dict

\* Line 395.
load_state ==
    /\ pc = "load_state"
    /\ IF LoadRaises(state_pickle)
       THEN /\ Fail("load_343")
            /\ UNCHANGED persistent_state
       ELSE /\ persistent_state' = LoadState(state_pickle)
            /\ pc' = "on_start"
            /\ UNCHANGED failure
    /\ UNCHANGED <<state_pickle, round_number, check_result, api_round>>
    /\ UNCHANGED <<wait_vars, disp_vars, wtnr_vars, data_vars, budget_vars, flag_vars>>

\* save_state: the whole dictionary replaces the file.
SaveState(d) == Pickled(d)

\* Line 398.
on_start ==
    /\ pc = "on_start"
    /\ BeginDispatch("on_start", None)
    /\ UNCHANGED <<round_number, failure, check_result, api_round>>
    /\ UNCHANGED <<wait_vars, wtnr_vars, data_vars, ckpt_vars, budget_vars, flag_vars>>

\* Mutant of StartupCheck: the current round is processed at every start.
StartupCheck_always(d, rn) ==
    IF d.last_round_processed = None \/ d.last_round_trained = None THEN "run"
    ELSE IF rn = None THEN "error"
    ELSE "run"

\* Mutant of StartupCheck: >= for > in line 403.
StartupCheck_ge(d, rn) ==
    IF d.last_round_processed = None \/ d.last_round_trained = None THEN "run"
    ELSE IF rn = None THEN "error"
    ELSE IF rn >= d.last_round_processed THEN "run"
    ELSE "skip"

\* Lines 401-403: whether run() processes the current round before the loop.
\* "error": the comparison of None with an integer raises TypeError.
StartupCheck(d, rn) ==
    IF d.last_round_processed = None \/ d.last_round_trained = None THEN "run"
    ELSE IF rn = None THEN "error"
    ELSE IF rn > d.last_round_processed THEN "run"
    ELSE "skip"

\* Lines 400-406.
get_current_round ==
    /\ pc = "get_current_round"
    /\ \E ans \in ApiAnswers :
         /\ round_number' = ans
         /\ CountFailure(ans)
         /\ LET c == StartupCheck(persistent_state, ans)
            IN  \/ /\ c = "run"
                   /\ pc' = "download_and_check"
                   /\ UNCHANGED failure
                \/ /\ c = "skip"
                   /\ pc' = "loop"
                   /\ UNCHANGED failure
                \/ /\ c = "error"
                   /\ Fail("run_403")
    /\ UNCHANGED <<check_result, api_round, restarts, invalid_datasets>>
    /\ UNCHANGED <<wait_vars, disp_vars, wtnr_vars, data_vars, ckpt_vars, flag_vars>>

\* Line 410: the daemon loop's test.
run_loop ==
    /\ pc = "loop"
    /\ pc' = IF exit_requested THEN "on_shutdown" ELSE "wtnr_197"
    /\ UNCHANGED <<round_number, failure, check_result, api_round>>
    /\ UNCHANGED <<wait_vars, disp_vars, wtnr_vars, data_vars, ckpt_vars, budget_vars, flag_vars>>

\* Lines 413-417: after wait_till_next_round returned.
run_next_round ==
    /\ pc = "run_413"
    /\ IF exit_requested
       THEN /\ pc' = "on_shutdown"
            /\ UNCHANGED round_number
       ELSE /\ round_number' = new_round_info
            /\ pc' = "download_and_check"
    /\ round_info' = None
    /\ new_round_info' = None
    /\ remaining' = 0
    /\ UNCHANGED <<failure, check_result, api_round>>
    /\ UNCHANGED <<wait_vars, disp_vars, data_vars, ckpt_vars, budget_vars, flag_vars>>

\* Line 422.
on_shutdown ==
    /\ pc = "on_shutdown"
    /\ BeginDispatch("on_shutdown", None)
    /\ UNCHANGED <<round_number, failure, check_result, api_round>>
    /\ UNCHANGED <<wait_vars, wtnr_vars, data_vars, ckpt_vars, budget_vars, flag_vars>>

\* Line 425, then run() returns.
final_save ==
    /\ pc = "final_save"
    /\ state_pickle' = SaveState(persistent_state)
    /\ pc' = "done"
    /\ UNCHANGED <<persistent_state, round_number, failure, check_result, api_round>>
    /\ UNCHANGED <<wait_vars, disp_vars, wtnr_vars, data_vars, budget_vars, flag_vars>>

\* ---------------------------------------------------------------- dispatch
\* Mutant of handler_raises: the exception is caught and the loop goes on.
handler_raises_logged ==
    /\ pc = "dispatch"
    /\ disp_idx <= Len(iterated)
    /\ failure' = "handler"
    /\ calls' = Append(calls, iterated[disp_idx])
    /\ disp_idx' = disp_idx + 1
    /\ pc' = IF disp_idx = Len(iterated)
             THEN AfterDispatch(disp_event) ELSE "dispatch"
    /\ completed' = IF disp_idx = Len(iterated)
                    THEN Completed(disp_event, trace[Len(trace)][2]) ELSE completed
    /\ UNCHANGED <<iterated, rebound, snapshot>>
    /\ UNCHANGED <<disp_event, trace, begun, round_number, check_result, api_round>>
    /\ UNCHANGED <<wait_vars, wtnr_vars, data_vars, ckpt_vars, budget_vars, flag_vars>>

\* One pass of "for h in self.event_handlers: h.on_...()": the handler
\* returns, or raises; nothing catches the exception.
handler_returns ==
    /\ pc = "dispatch"
    /\ disp_idx <= Len(iterated)
    /\ calls' = Append(calls, iterated[disp_idx])
    /\ disp_idx' = disp_idx + 1
    /\ pc' = IF disp_idx = Len(iterated)
             THEN AfterDispatch(disp_event) ELSE "dispatch"
    /\ completed' = IF disp_idx = Len(iterated)
                    THEN Completed(disp_event, trace[Len(trace)][2]) ELSE completed
    /\ UNCHANGED <<iterated, rebound, snapshot>>
    /\ UNCHANGED <<disp_event, trace, begun, round_number, failure, check_result, api_round>>
    /\ UNCHANGED <<wait_vars, wtnr_vars, data_vars, ckpt_vars, budget_vars, flag_vars>>

handler_raises ==
    /\ pc = "dispatch"
    /\ disp_idx <= Len(iterated)
    /\ Fail("handler")
    /\ calls' = Append(calls, iterated[disp_idx])
    /\ UNCHANGED <<disp_event, disp_idx, trace, completed, begun>>
    /\ UNCHANGED <<iterated, rebound, snapshot>>
    /\ UNCHANGED <<round_number, check_result, api_round>>
    /\ UNCHANGED <<wait_vars, wtnr_vars, data_vars, ckpt_vars, budget_vars, flag_vars>>

\* ----------------------------------------------------------- run_new_round
\* utils.check_dataset(filename_old, filename_new): whether the new file holds
\* new data.  A file compared with itself is not new; for two files the answer
\* is the data's (differs).
check_dataset(old, new, differs) ==
    IF old = new THEN FALSE ELSE differs

\* download_and_check, lines 282-296, when the download raises
\* requests.RequestException: valid is False and dataset_path keeps its value.
download_and_check_exception ==
    /\ pc = "download_and_check"
    /\ invalid_datasets < MaxInvalid
    /\ invalid_datasets' = invalid_datasets + 1
    /\ valid' = FALSE
    /\ pc' = "rnr_310"
    /\ UNCHANGED <<dataset_path, zip_exists, training_data, restarts, api_failures>>
    /\ UNCHANGED <<round_number, failure, check_result, api_round>>
    /\ UNCHANGED <<wait_vars, disp_vars, wtnr_vars, ckpt_vars, flag_vars>>

\* download_and_check when download_dataset raises an exception that is not a
\* requests.RequestException (OSError while writing, zipfile.BadZipFile while
\* unpacking): line 288 does not catch it.
download_and_check_io_error ==
    /\ pc = "download_and_check"
    /\ invalid_datasets < MaxInvalid
    /\ invalid_datasets' = invalid_datasets + 1
    /\ Fail("dac_282")
    /\ UNCHANGED <<data_vars, restarts, api_failures>>
    /\ UNCHANGED <<round_number, check_result, api_round>>
    /\ UNCHANGED <<wait_vars, disp_vars, wtnr_vars, ckpt_vars, flag_vars>>

\* download_and_check when the download succeeds: the current round's zip is
\* stored, then the tournament data of round_number - 1 and round_number are
\* compared (round_number None: TypeError at line 285).
download_and_check_downloaded ==
    /\ pc = "download_and_check"
    /\ dataset_path' = api_round
    /\ zip_exists' = TRUE
    /\ IF round_number = None
       THEN /\ Fail("dac_285")
            /\ UNCHANGED <<valid, invalid_datasets>>
       ELSE /\ \E differs \in BOOLEAN :
                 /\ ~differs => invalid_datasets < MaxInvalid
                 /\ valid' = check_dataset(round_number - 1, round_number, differs)
                 /\ invalid_datasets' =
                      IF differs THEN invalid_datasets ELSE invalid_datasets + 1
            /\ pc' = "rnr_310"
            /\ UNCHANGED failure
    /\ UNCHANGED <<training_data, restarts, api_failures>>
    /\ UNCHANGED <<round_number, check_result, api_round>>
    /\ UNCHANGED <<wait_vars, disp_vars, wtnr_vars, ckpt_vars, flag_vars>>

\* Lines 310-319: the dataset is not valid and no exit is requested: remove the
\* downloaded files and wait 10 minutes.  os.remove raises when dataset_path is
\* None (TypeError) or names no file (FileNotFoundError).
run_new_round_retry ==
    /\ pc = "rnr_310"
    /\ ~valid /\ ~exit_requested
    /\ IF dataset_path = None \/ ~zip_exists
       THEN /\ Fail("rnr_315")
            /\ UNCHANGED <<zip_exists, wait_vars>>
       ELSE /\ zip_exists' = FALSE
            /\ EnterWait(RetrySeconds, "rnr_320")
            /\ UNCHANGED failure
    /\ UNCHANGED <<dataset_path, valid, training_data>>
    /\ UNCHANGED <<round_number, check_result, api_round>>
    /\ UNCHANGED <<disp_vars, wtnr_vars, ckpt_vars, budget_vars, flag_vars>>

\* Mutant of run_new_round_after_wait: line 320's test is missing.
run_new_round_after_wait_no_exit_check ==
    /\ pc = "rnr_320"
    /\ pc' = "download_and_check"
    /\ UNCHANGED <<round_number, failure, check_result, api_round>>
    /\ UNCHANGED <<wait_vars, disp_vars, wtnr_vars, data_vars, ckpt_vars, budget_vars, flag_vars>>

\* Lines 320-323: after the wait.
run_new_round_after_wait ==
    /\ pc = "rnr_320"
    /\ pc' = IF exit_requested THEN "loop" ELSE "download_and_check"
    /\ UNCHANGED <<round_number, failure, check_result, api_round>>
    /\ UNCHANGED <<wait_vars, disp_vars, wtnr_vars, data_vars, ckpt_vars, budget_vars, flag_vars>>

\* Lines 310, 326, 145: the while loop is left (valid, or exit requested) and
\* on_round_begin is dispatched.
on_round_begin_internal ==
    /\ pc = "rnr_310"
    /\ valid \/ exit_requested
    /\ BeginDispatch("on_round_begin", round_number)
    /\ UNCHANGED <<round_number, failure, check_result, api_round>>
    /\ UNCHANGED <<wait_vars, wtnr_vars, data_vars, ckpt_vars, budget_vars, flag_vars>>

\* The training files of the rounds old and new hold what they hold: compared
\* again (by another process), they differ if and only if they differed.
TrainingDiffers(old, new) ==
    IF \E t \in training_data : t[1] = old /\ t[2] = new
    THEN {t[3] : t \in {u \in training_data : u[1] = old /\ u[2] = new}}
    ELSE BOOLEAN

Compared(old, new, differs) ==
    IF old = None \/ old = new THEN training_data
    ELSE training_data \cup {<<old, new, differs>>}

\* Mutant of check_new_training_data: on_new_training_data is dispatched
\* whatever the comparison says.
check_new_training_data_always_trains ==
    /\ pc = "check_new_training_data"
    /\ \E differs \in TrainingDiffers(persistent_state.last_round_trained, round_number) :
         LET new == IF persistent_state.last_round_trained = None THEN TRUE
                    ELSE check_dataset(persistent_state.last_round_trained,
                                       round_number, differs)
         IN  /\ check_result' = IF new THEN "new" ELSE "old"
             /\ training_data' =
                  Compared(persistent_state.last_round_trained, round_number, differs)
             /\ BeginDispatch("on_new_training_data", round_number)
    /\ UNCHANGED <<dataset_path, zip_exists, valid, round_number, failure, api_round>>
    /\ UNCHANGED <<wait_vars, wtnr_vars, ckpt_vars, budget_vars, flag_vars>>

\* Mutant of check_new_training_data: with last_round_trained None the
\* training data is not taken as new.
check_new_training_data_none_is_old ==
    /\ pc = "check_new_training_data"
    /\ \E differs \in TrainingDiffers(persistent_state.last_round_trained, round_number) :
         LET new == IF persistent_state.last_round_trained = None THEN FALSE
                    ELSE check_dataset(persistent_state.last_round_trained,
                                       round_number, differs)
         IN  /\ check_result' = IF new THEN "new" ELSE "old"
             /\ training_data' =
                  Compared(persistent_state.last_round_trained, round_number, differs)
             /\ BeginDispatch(IF new THEN "on_new_training_data"
                                     ELSE "on_new_tournament_data", round_number)
    /\ UNCHANGED <<dataset_path, zip_exists, valid, round_number, failure, api_round>>
    /\ UNCHANGED <<wait_vars, wtnr_vars, ckpt_vars, budget_vars, flag_vars>>

\* Lines 125-139 and 148-150 / 157: is the training data new?
check_new_training_data ==
    /\ pc = "check_new_training_data"
    /\ \E differs \in TrainingDiffers(persistent_state.last_round_trained, round_number) :
         LET new == IF persistent_state.last_round_trained = None THEN TRUE
                    ELSE check_dataset(persistent_state.last_round_trained,
                                       round_number, differs)
         IN  /\ check_result' = IF new THEN "new" ELSE "old"
             /\ training_data' =
                  Compared(persistent_state.last_round_trained, round_number, differs)
             /\ BeginDispatch(IF new THEN "on_new_training_data"
                                     ELSE "on_new_tournament_data", round_number)
    /\ UNCHANGED <<dataset_path, zip_exists, valid, round_number, failure, api_round>>
    /\ UNCHANGED <<wait_vars, wtnr_vars, ckpt_vars, budget_vars, flag_vars>>

\* Mutant of save_trained: last_round_processed is set and saved together with
\* last_round_trained.
save_trained_and_processed ==
    /\ pc = "save_trained"
    /\ persistent_state' = PState(round_number, round_number)
    /\ state_pickle' = SaveState(persistent_state')
    /\ BeginDispatch("on_new_tournament_data", round_number)
    /\ UNCHANGED <<round_number, failure, check_result, api_round>>
    /\ UNCHANGED <<wait_vars, wtnr_vars, data_vars, budget_vars, flag_vars>>

\* Mutant of save_trained: on_new_tournament_data is not dispatched after a
\* training.
save_trained_no_tournament ==
    /\ pc = "save_trained"
    /\ persistent_state' =
         [persistent_state EXCEPT !.last_round_trained = round_number]
    /\ state_pickle' = SaveState(persistent_state')
    /\ pc' = "save_processed"
    /\ UNCHANGED <<round_number, failure, check_result, api_round>>
    /\ UNCHANGED <<wait_vars, disp_vars, wtnr_vars, data_vars, budget_vars, flag_vars>>

\* Mutant of save_trained: the API's current round is recorded as trained.
save_trained_api_round ==
    /\ pc = "save_trained"
    /\ persistent_state' =
         [persistent_state EXCEPT !.last_round_trained = api_round]
    /\ state_pickle' = SaveState(persistent_state')
    /\ BeginDispatch("on_new_tournament_data", round_number)
    /\ UNCHANGED <<round_number, failure, check_result, api_round>>
    /\ UNCHANGED <<wait_vars, wtnr_vars, data_vars, budget_vars, flag_vars>>

\* Mutant of save_trained: line 154's save_state is missing.
save_trained_unsaved ==
    /\ pc = "save_trained"
    /\ persistent_state' =
         [persistent_state EXCEPT !.last_round_trained = round_number]
    /\ BeginDispatch("on_new_tournament_data", round_number)
    /\ UNCHANGED <<state_pickle, round_number, failure, check_result, api_round>>
    /\ UNCHANGED <<wait_vars, wtnr_vars, data_vars, budget_vars, flag_vars>>

\* Lines 151-157: last_round_trained is set and saved, then
\* on_new_tournament_data is dispatched.
save_trained ==
    /\ pc = "save_trained"
    /\ persistent_state' =
         [persistent_state EXCEPT !.last_round_trained = round_number]
    /\ state_pickle' = SaveState(persistent_state')
    /\ BeginDispatch("on_new_tournament_data", round_number)
    /\ UNCHANGED <<round_number, failure, check_result, api_round>>
    /\ UNCHANGED <<wait_vars, wtnr_vars, data_vars, budget_vars, flag_vars>>

\* Mutant of save_processed: a requested exit ends run_new_round before the
\* save of last_round_processed.
save_processed_unless_exit ==
    /\ pc = "save_processed"
    /\ persistent_state' =
         IF exit_requested THEN persistent_state
         ELSE [persistent_state EXCEPT !.last_round_processed = round_number]
    /\ state_pickle' = IF exit_requested THEN state_pickle
                       ELSE SaveState(persistent_state')
    /\ pc' = "loop"
    /\ check_result' = "none"
    /\ UNCHANGED <<round_number, failure, api_round>>
    /\ UNCHANGED <<wait_vars, disp_vars, wtnr_vars, data_vars, budget_vars, flag_vars>>

\* Lines 329-332: last_round_processed is set and saved; run_new_round returns.
save_processed ==
    /\ pc = "save_processed"
    /\ persistent_state' =
         [persistent_state EXCEPT !.last_round_processed = round_number]
    /\ state_pickle' = SaveState(persistent_state')
    /\ pc' = "loop"
    /\ check_result' = "none"
    /\ UNCHANGED <<round_number, failure, api_round>>
    /\ UNCHANGED <<wait_vars, disp_vars, wtnr_vars, data_vars, budget_vars, flag_vars>>

\* ------------------------------------------------------ interruptible_wait
\* How long one time.sleep(1) may last.
SleepDurations ==
    (IF elapsed < MaxShortSleeps * SleepSeconds THEN {SleepSeconds} ELSE {})
    \cup {IF seconds - elapsed > SleepSeconds THEN seconds - elapsed ELSE SleepSeconds}

\* Lines 174-181: one pass of the loop: sleep, then return if exit_requested.
interruptible_wait_sleep ==
    /\ pc = "interruptible_wait"
    /\ elapsed < seconds
    /\ \E d \in SleepDurations :
         /\ elapsed' = IF exit_requested THEN 0 ELSE elapsed + d
         /\ remaining' = IF round_info = None THEN remaining ELSE remaining - d
    /\ sleeps_after_exit' = sleeps_after_exit + (IF exit_requested THEN 1 ELSE 0)
    /\ IF exit_requested
       THEN /\ pc' = wait_ret
            /\ seconds' = 0
            /\ wait_ret' = ""
       ELSE UNCHANGED <<pc, seconds, wait_ret>>
    /\ UNCHANGED <<round_info, new_round_info>>
    /\ UNCHANGED <<round_number, failure, check_result, api_round>>
    /\ UNCHANGED <<disp_vars, data_vars, ckpt_vars, budget_vars, flag_vars>>

\* Line 174: the time has passed (or seconds <= 0: no sleep at all).
interruptible_wait_return ==
    /\ pc = "interruptible_wait"
    /\ elapsed >= seconds
    /\ pc' = wait_ret
    /\ seconds' = 0
    /\ elapsed' = 0
    /\ wait_ret' = ""
    /\ UNCHANGED <<sleeps_after_exit, round_number, failure, check_result, api_round>>
    /\ UNCHANGED <<disp_vars, wtnr_vars, data_vars, ckpt_vars, budget_vars, flag_vars>>

\* ---------------------------------------------------- wait_till_next_round
\* Lines 197-198: the round to wait out, and its closeTime.
wait_till_next_round ==
    /\ pc = "wtnr_197"
    /\ \E ans \in ApiAnswers :
         /\ CountFailure(ans)
         /\ IF ans = None
            THEN /\ Fail("wtnr_198")
                 /\ UNCHANGED <<round_info, remaining>>
            ELSE /\ round_info' = ans
                 /\ \E c \in CloseIns : remaining' = c
                 /\ pc' = "wtnr_query"
                 /\ UNCHANGED failure
    /\ UNCHANGED <<new_round_info, round_number, check_result, api_round>>
    /\ UNCHANGED <<restarts, invalid_datasets>>
    /\ UNCHANGED <<wait_vars, disp_vars, data_vars, ckpt_vars, flag_vars>>

\* Lines 200 and 205: ask for the round details (again).
wtnr_query ==
    /\ pc = "wtnr_query"
    /\ \E ans \in ApiAnswers :
         /\ CountFailure(ans)
         /\ new_round_info' = ans
    /\ pc' = "wtnr_202"
    /\ UNCHANGED <<round_info, remaining, round_number, failure, check_result, api_round>>
    /\ UNCHANGED <<restarts, invalid_datasets>>
    /\ UNCHANGED <<wait_vars, disp_vars, data_vars, ckpt_vars, flag_vars>>

\* Lines 202-210: no answer and no exit requested: wait a minute and ask again;
\* otherwise log the round waited for (last_round_processed + 1).
wtnr_no_answer ==
    /\ pc = "wtnr_202"
    /\ IF new_round_info = None /\ ~exit_requested
       THEN /\ EnterWait(ApiWaitSeconds, "wtnr_query")
            /\ UNCHANGED failure
       ELSE /\ IF persistent_state.last_round_processed = None
               THEN Fail("wtnr_209")
               ELSE /\ pc' = "wtnr_213"
                    /\ UNCHANGED failure
            /\ UNCHANGED wait_vars
    /\ UNCHANGED <<round_number, check_result, api_round>>
    /\ UNCHANGED <<disp_vars, wtnr_vars, data_vars, ckpt_vars, budget_vars, flag_vars>>

\* Lines 213-222 and 239: the loop's test (new_round_info None: TypeError); same
\* round and no exit requested: wait before the next poll; otherwise return.
wtnr_loop ==
    /\ pc = "wtnr_213"
    /\ IF new_round_info = None
       THEN /\ Fail("wtnr_213")
            /\ UNCHANGED wait_vars
       ELSE /\ IF new_round_info = round_info /\ ~exit_requested
               THEN EnterWait(WaitInterval(remaining), "wtnr_224")
               ELSE /\ pc' = "run_413"
                    /\ UNCHANGED wait_vars
            /\ UNCHANGED failure
    /\ UNCHANGED <<round_number, check_result, api_round>>
    /\ UNCHANGED <<disp_vars, wtnr_vars, data_vars, ckpt_vars, budget_vars, flag_vars>>

\* Lines 224-237: return None if exit is requested, else poll; an unanswered
\* poll raises TypeError in the log statement of line 231.
wtnr_poll ==
    /\ pc = "wtnr_224"
    /\ IF exit_requested
       THEN /\ pc' = "run_413"
            /\ new_round_info' = None
            /\ UNCHANGED <<failure, api_failures>>
       ELSE \E ans \in ApiAnswers :
              /\ CountFailure(ans)
              /\ new_round_info' = ans
              /\ IF ans = None
                 THEN Fail("wtnr_231")
                 ELSE /\ pc' = "wtnr_213"
                      /\ UNCHANGED failure
    /\ UNCHANGED <<round_info, remaining, round_number, check_result, api_round>>
    /\ UNCHANGED <<restarts, invalid_datasets>>
    /\ UNCHANGED <<wait_vars, disp_vars, data_vars, ckpt_vars, flag_vars>>

\* ------------------------------------------------------------- environment
\* run_new_round after download_and_check returned True (lines 307-332): the
\* loop test of line 310, on_round_begin_internal with its dispatch loops, and
\* the save of last_round_processed.
RoundInProgress ==
    /\ valid
    /\ \/ pc \in {"rnr_310", "check_new_training_data", "save_trained",
                  "save_processed"}
       \/ /\ pc = "dispatch"
          /\ disp_event \in {"on_round_begin", "on_new_training_data",
                             "on_new_tournament_data"}

\* Lines 375-379, on SIGINT / SIGTERM.
signalHandler ==
    /\ Alive
    /\ ~exit_requested
    /\ exit_requested' = TRUE
    /\ cancelled_in_retry' = (pc = "interruptible_wait" /\ wait_ret = "rnr_320")
    /\ cancelled_in_round' = RoundInProgress
    /\ UNCHANGED <<pc, event_handlers, round_number, failure, check_result, api_round>>
    /\ UNCHANGED <<wait_vars, disp_vars, wtnr_vars, data_vars, ckpt_vars, budget_vars>>

\* The API switches to the next round.
provider_advance ==
    /\ Alive \/ restarts < MaxRestarts
    /\ api_round < MaxRound
    /\ api_round' = api_round + 1
    /\ UNCHANGED <<pc, round_number, failure, check_result>>
    /\ UNCHANGED <<wait_vars, disp_vars, wtnr_vars, data_vars, ckpt_vars, budget_vars, flag_vars>>

\* A new process: the attributes __init__ sets, nothing dispatched yet.
FreshMemory ==
    /\ exit_requested' = FALSE
    /\ round_number' = None
    /\ persistent_state' = PState(None, None)
    /\ dataset_path' = None
    /\ zip_exists' = FALSE
    /\ valid' = FALSE
    /\ round_info' = None
    /\ new_round_info' = None
    /\ remaining' = 0
    /\ seconds' = 0
    /\ elapsed' = 0
    /\ wait_ret' = ""
    /\ disp_event' = ""
    /\ disp_idx' = 0
    /\ iterated' = <<>>
    /\ rebound' = FALSE
    /\ snapshot' = <<>>
    /\ failure' = ""
    /\ trace' = <<>>
    /\ calls' = <<>>
    /\ check_result' = "none"
    /\ cancelled_in_retry' = FALSE
    /\ cancelled_in_round' = FALSE
    /\ sleeps_after_exit' = 0

\* What is kept of the ended processes once this one has ended, of the rounds
\* that are not over: the rounds whose on_new_training_data was dispatched while
\* state.pickle does not name them as trained, the dispatch loops that ended for
\* the rounds state.pickle names, and the comparisons with the training file of
\* last_round_trained (no later process compares with an older one).
EndOfProcess(file) ==
    /\ begun' = {r \in begun \cup {trace[i][2] : i \in {j \in 1 .. Len(trace) :
                                            trace[j][1] = "on_new_training_data"}} :
                    r >= api_round /\ r # file.dict.last_round_trained}
    /\ completed' = {e \in completed : e[2] \in {file.dict.last_round_processed,
                                                 file.dict.last_round_trained}}
    /\ training_data' = {t \in training_data :
                            t[1] = file.dict.last_round_trained /\ t[2] >= api_round}

\* The process is killed (power loss, SIGKILL): only state.pickle survives.
kill ==
    /\ Alive
    /\ pc' = "killed"
    /\ FreshMemory
    /\ EndOfProcess(state_pickle)
    /\ UNCHANGED <<state_pickle, event_handlers, api_round, budget_vars>>

\* The daemon is started again with the same handlers.
restart ==
    /\ pc \in Terminated
    /\ restarts < MaxRestarts
    /\ restarts' = restarts + 1
    /\ pc' = "load_state"
    /\ FreshMemory
    /\ EndOfProcess(state_pickle)
    /\ UNCHANGED <<state_pickle, event_handlers, api_round, api_failures, invalid_datasets>>

\* The daemon is started again and finds state.pickle damaged (a save_state cut
\* short after open(..., 'wb') emptied the file or while pickle.dump wrote it,
\* or a disk fault).
restart_damaged ==
    /\ pc \in Terminated
    /\ restarts < MaxRestarts
    /\ restarts' = restarts + 1
    /\ pc' = "load_state"
    /\ \E k \in DamagedKinds : state_pickle' = Damaged(k)
    /\ FreshMemory
    /\ EndOfProcess(state_pickle')
    /\ UNCHANGED <<event_handlers, api_round, api_failures, invalid_datasets>>

Next ==
    \/ load_state
    \/ on_start
    \/ get_current_round
    \/ run_loop
    \/ run_next_round
    \/ on_shutdown
    \/ final_save
    \/ handler_returns
    \/ handler_raises
    \/ download_and_check_exception
    \/ download_and_check_io_error
    \/ download_and_check_downloaded
    \/ run_new_round_retry
    \/ run_new_round_after_wait
    \/ on_round_begin_internal
    \/ check_new_training_data
    \/ save_trained
    \/ save_processed
    \/ interruptible_wait_sleep
    \/ interruptible_wait_return
    \/ wait_till_next_round
    \/ wtnr_query
    \/ wtnr_no_answer
    \/ wtnr_loop
    \/ wtnr_poll
    \/ signalHandler
    \/ provider_advance
    \/ kill
    \/ restart
    \/ restart_damaged

Spec == Init /\ [][Next]_vars

\* ------------------------------------------------- handlers added by a script
\* A script constructs Numerauto, adds and removes handlers and calls run(),
\* with the API answering every request and every dataset valid.
InitScript ==
    /\ pc = "script"
    /\ event_handlers = <<>>
    /\ restarts = MaxRestarts
    /\ api_failures = MaxApiFailures
    /\ invalid_datasets = MaxInvalid
    /\ Constructed

script_frame == <<round_number, failure, check_result, api_round, exit_requested,
                  cancelled_in_retry, cancelled_in_round, wait_vars, disp_vars,
                  wtnr_vars, data_vars,
                  ckpt_vars, budget_vars>>

\* Mutant of add_event_handler: the handler is put in front of the list.
add_event_handler_front ==
    /\ pc = "script"
    /\ Len(event_handlers) < NumHandlers
    /\ \E h \in HandlerObjects : event_handlers' = <<h>> \o event_handlers
    /\ UNCHANGED <<pc, script_frame>>

\* Lines 65-74: the handler is appended, whatever the list holds.
add_event_handler ==
    /\ pc = "script"
    /\ Len(event_handlers) < NumHandlers
    /\ \E h \in HandlerObjects : event_handlers' = Append(event_handlers, h)
    /\ UNCHANGED <<pc, script_frame>>

\* Line 88: the list without the handlers of that name.
WithoutName(list, n) ==
    LET differs(h) == HandlerName(h) # n
    IN  SelectSeq(list, differs)

\* Lines 76-88.
remove_event_handler ==
    /\ pc = "script"
    /\ \E n \in HandlerNames : event_handlers' = WithoutName(event_handlers, n)
    /\ UNCHANGED <<pc, script_frame>>

\* The script calls run() (line 383).
run ==
    /\ pc = "script"
    /\ pc' = "load_state"
    /\ UNCHANGED <<event_handlers, script_frame>>

NextScript ==
    \/ add_event_handler
    \/ remove_event_handler
    \/ run
    \/ load_state
    \/ on_start
    \/ get_current_round
    \/ run_loop
    \/ run_next_round
    \/ on_shutdown
    \/ final_save
    \/ handler_returns
    \/ handler_raises
    \/ download_and_check_downloaded
    \/ on_round_begin_internal
    \/ check_new_training_data
    \/ save_trained
    \/ save_processed
    \/ interruptible_wait_sleep
    \/ interruptible_wait_return
    \/ wait_till_next_round
    \/ wtnr_query
    \/ wtnr_no_answer
    \/ wtnr_loop
    \/ wtnr_poll
    \/ signalHandler
    \/ provider_advance
    \/ kill

SpecScript == InitScript /\ [][NextScript]_vars

\* ------------------------------------ handlers changed from inside a callback
\* A callback reaches the daemon through handler.numerauto, which
\* add_event_handler sets (line 74) and remove_event_handler clears (line 86):
\* the handlers that hold it are those of self.event_handlers.
HoldsNumerauto(h) == \E i \in 1 .. Len(event_handlers) : event_handlers[i] = h

dispatch_frame == <<pc, round_number, failure, check_result, api_round, exit_requested,
                    cancelled_in_retry, cancelled_in_round, wait_vars, wtnr_vars,
                    data_vars, ckpt_vars,
                    budget_vars, disp_event, disp_idx, trace, calls, completed,
                    begun, snapshot>>

\* The callback in progress calls self.numerauto.add_event_handler (lines
\* 65-74): the append changes the list object in place, which is the one the
\* loop of lines 90-123 iterates unless a removal has bound the attribute to
\* another list since.
handler_adds_handler ==
    /\ pc = "dispatch"
    /\ disp_idx <= Len(iterated)
    /\ HoldsNumerauto(iterated[disp_idx])
    /\ Len(event_handlers) < NumHandlers
    /\ \E h \in HandlerObjects :
         /\ event_handlers' = Append(event_handlers, h)
         /\ iterated' = IF rebound THEN iterated ELSE Append(iterated, h)
    /\ UNCHANGED <<rebound, dispatch_frame>>

\* The callback in progress calls self.numerauto.remove_event_handler (lines
\* 76-88): line 88 binds self.event_handlers to a new list and leaves the list
\* object of the running loop as it is.
handler_removes_handler ==
    /\ pc = "dispatch"
    /\ disp_idx <= Len(iterated)
    /\ HoldsNumerauto(iterated[disp_idx])
    /\ \E n \in HandlerNames : event_handlers' = WithoutName(event_handlers, n)
    /\ rebound' = TRUE
    /\ UNCHANGED <<iterated, dispatch_frame>>

\* A script adds and removes handlers and calls run(); the callbacks of the
\* start and of the first round add and remove handlers too.
NextDispatch ==
    \/ add_event_handler
    \/ remove_event_handler
    \/ run
    \/ load_state
    \/ on_start
    \/ get_current_round
    \/ download_and_check_downloaded
    \/ on_round_begin_internal
    \/ check_new_training_data
    \/ save_trained
    \/ save_processed
    \/ handler_returns
    \/ handler_adds_handler
    \/ handler_removes_handler

SpecDispatch == InitScript /\ [][NextDispatch]_vars

\* ------------------------------------------- the wait before each re-poll
\* Round 1 of a first run is processed and wait_till_next_round has reached the
\* loop of line 213, the close of round 1 being any time away; the API answers
\* every request.
InitWait ==
    /\ pc = "wtnr_213"
    /\ remaining \in -MaxRemaining .. MaxRemaining
    /\ exit_requested = FALSE
    /\ event_handlers = [i \in 1 .. NumHandlers |-> i]
    /\ round_number = 1
    /\ persistent_state = PState(1, 1)
    /\ state_pickle = Pickled(PState(1, 1))
    /\ dataset_path = 1
    /\ zip_exists = TRUE
    /\ valid = TRUE
    /\ api_round = 1
    /\ round_info = 1
    /\ new_round_info = 1
    /\ seconds = 0
    /\ elapsed = 0
    /\ wait_ret = ""
    /\ disp_event = "on_new_tournament_data"
    /\ disp_idx = NumHandlers + 1
    /\ iterated = [i \in 1 .. NumHandlers |-> i]
    /\ rebound = FALSE
    /\ snapshot = [i \in 1 .. NumHandlers |-> i]
    /\ failure = ""
    /\ restarts = 0
    /\ api_failures = MaxApiFailures
    /\ invalid_datasets = 0
    /\ trace = <<<<"on_start", None>>, <<"on_round_begin", 1>>,
                 <<"on_new_training_data", 1>>, <<"on_new_tournament_data", 1>>>>
    /\ calls = [i \in 1 .. NumHandlers |-> i]
    /\ completed = {<<"on_round_begin", 1>>, <<"on_new_training_data", 1>>,
                    <<"on_new_tournament_data", 1>>}
    /\ begun = {}
    /\ training_data = {}
    /\ check_result = "none"
    /\ cancelled_in_retry = FALSE
    /\ cancelled_in_round = FALSE
    /\ sleeps_after_exit = 0

NextWait ==
    \/ wtnr_loop
    \/ interruptible_wait_sleep
    \/ interruptible_wait_return
    \/ wtnr_poll
    \/ signalHandler

SpecWait == InitWait /\ [][NextWait]_vars

\* ================================================================== claims
Ev(i) == trace[i][1]
Rn(i) == trace[i][2]
IsRoundBegin(e) == e[1] = "on_round_begin"
\* The rounds on_round_begin was dispatched for, in order.
BegunRounds == [i \in 1 .. Len(SelectSeq(trace, IsRoundBegin)) |->
                  SelectSeq(trace, IsRoundBegin)[i][2]]
DiskDict == state_pickle.dict

\* C1: while no exit is requested (the API's round advances one at a time), the
\* rounds that receive on_round_begin are consecutive: no round is skipped,
\* whenever the API switches rounds.
C1_NoRoundSkipped ==
    ~exit_requested =>
        \A i \in 1 .. Len(BegunRounds) - 1 : BegunRounds[i + 1] = BegunRounds[i] + 1

\* C2: the events of a process come in the fixed order: on_round_begin(N),
\* then on_new_training_data(N) exactly when the training data is new, then
\* on_new_tournament_data(N), with no event of another round in between; and
\* last_round_processed = N is set and saved only after the
\* on_new_tournament_data(N) dispatch has finished.
C2_OrderOK ==
    /\ \A i \in 1 .. Len(trace) :
         CASE Ev(i) = "on_start" -> i = 1
           [] Ev(i) = "on_round_begin" ->
                /\ i > 1
                /\ Ev(i - 1) \in {"on_start", "on_new_tournament_data"}
                /\ Ev(i - 1) = "on_new_tournament_data" => Rn(i - 1) # Rn(i)
           [] Ev(i) = "on_new_training_data" ->
                i > 1 /\ trace[i - 1] = <<"on_round_begin", Rn(i)>>
           [] Ev(i) = "on_new_tournament_data" ->
                i > 1 /\ trace[i - 1] \in {<<"on_round_begin", Rn(i)>>,
                                           <<"on_new_training_data", Rn(i)>>}
           [] Ev(i) = "on_shutdown" ->
                /\ i = Len(trace)
                /\ i > 1
                /\ Ev(i - 1) \in {"on_start", "on_new_tournament_data"}
    /\ check_result = "new" =>
         \E i \in 1 .. Len(trace) : trace[i] = <<"on_new_training_data", round_number>>
    /\ check_result = "old" =>
         /\ trace[Len(trace)] = <<"on_new_tournament_data", round_number>>
         /\ trace[Len(trace) - 1] = <<"on_round_begin", round_number>>

C2_ProcessedLast ==
    \/ /\ DiskDict'.last_round_processed = DiskDict.last_round_processed
       /\ persistent_state'.last_round_processed = persistent_state.last_round_processed
    \/ pc = "load_state" \/ pc' = "load_state" \/ pc' = "killed"
    \/ /\ pc = "save_processed"
       /\ trace[Len(trace)] = <<"on_new_tournament_data", round_number>>
       /\ disp_idx > Len(event_handlers)
       /\ DiskDict'.last_round_processed = round_number
       /\ persistent_state'.last_round_processed = round_number

\* C2: the event order holds in every state, and every step that changes
\* last_round_processed is the save that follows on_new_tournament_data(N).
C2_RoundEventOrder == [](C2_OrderOK) /\ [][C2_ProcessedLast]_vars

\* A round with new training data has run to its end.
C2_Witness ==
    /\ pc = "loop"
    /\ Len(trace) = 4
    /\ trace[3] = <<"on_new_training_data", round_number>>
    /\ DiskDict.last_round_processed = round_number

\* C3: each completed run_new_round leaves last_round_processed, in memory and
\* in state.pickle, equal to the round just processed and greater than it was.
C3_Completes ==
    (pc = "save_processed" /\ pc' = "loop") =>
        /\ persistent_state'.last_round_processed = round_number
        /\ DiskDict' = persistent_state'
        /\ \/ persistent_state.last_round_processed = None
           \/ persistent_state'.last_round_processed
                > persistent_state.last_round_processed
        /\ \/ DiskDict.last_round_processed = None
           \/ DiskDict'.last_round_processed > DiskDict.last_round_processed

\* C3: every step that completes run_new_round satisfies C3_Completes.
C3_ProcessedIncreases == [][C3_Completes]_vars

\* Two rounds were processed one after the other.
C3_Witness ==
    /\ pc = "loop"
    /\ Len(BegunRounds) = 2
    /\ DiskDict.last_round_processed = BegunRounds[2]
    /\ BegunRounds[2] > BegunRounds[1]

TrainedLeProcessed(d) ==
    (d.last_round_trained # None /\ d.last_round_processed # None)
        => d.last_round_trained <= d.last_round_processed

\* C4 as stated: in every state last_round_trained is null or at most
\* last_round_processed, in memory and in state.pickle.
C4_TrainedLeProcessed ==
    TrainedLeProcessed(persistent_state) /\ TrainedLeProcessed(DiskDict)

\* C4 as amended: the order holds once the round in hand is recorded as
\* processed (from the end of run_new_round until the next round starts);
\* during round N last_round_trained = N is saved before last_round_processed.
C4_TrainedLeProcessedAtRest ==
    /\ persistent_state.last_round_processed = round_number
         => TrainedLeProcessed(persistent_state)
    /\ DiskDict.last_round_processed = round_number
         => TrainedLeProcessed(DiskDict)

\* The second round retrained and completed.
C4_Witness ==
    /\ pc = "loop"
    /\ Len(BegunRounds) = 2
    /\ persistent_state = PState(round_number, round_number)
    /\ DiskDict = persistent_state

RoundEvents == {"on_round_begin", "on_new_training_data", "on_new_tournament_data"}
InRound ==
    \/ pc = "dispatch" /\ disp_event \in RoundEvents
    \/ pc \in {"check_new_training_data", "save_trained", "save_processed"}

\* C5: the events and checkpoint updates of a round happen only after
\* download_and_check returned True for it.
C5_EventsOnlyAfterValid == InRound => valid

C6_Aborted ==
    failure = "handler" =>
        /\ pc = "failed"
        /\ disp_idx <= Len(event_handlers)
        /\ trace[Len(trace)][1] = disp_event
        /\ ((disp_event \in RoundEvents /\ round_number # None)
               => (DiskDict.last_round_processed # round_number))
        /\ ((disp_event = "on_new_training_data" /\ round_number # None)
               => (DiskDict.last_round_trained # round_number))

C6_NothingAfter ==
    failure = "handler" =>
        /\ state_pickle' = state_pickle \/ pc' = "load_state"
        /\ disp_idx' = disp_idx \/ pc' = "load_state"
        /\ trace' = trace \/ pc' = "load_state"

OtherFailures == {"handler", "load_343", "dac_282", "run_403", "dac_285", "wtnr_198", "wtnr_231", "rnr_315"}

\* C7: after exit_requested is set, run() ends only by dispatching on_shutdown
\* once, as the last event, and saving the state.
C7_ShutdownAfterCancel ==
    (exit_requested /\ pc \in {"done", "failed"} /\ failure \notin OtherFailures) =>
        /\ pc = "done"
        /\ trace[Len(trace)] = <<"on_shutdown", None>>
        /\ \A i \in 1 .. Len(trace) - 1 : Ev(i) # "on_shutdown"
        /\ state_pickle = SaveState(persistent_state)

\* C8: exit requested during run_new_round's 10-minute wait: the wait ends
\* after at most one more sleep, and run_new_round returns without another
\* download, without a round event and without a checkpoint change.
C8_State ==
    cancelled_in_retry =>
        /\ sleeps_after_exit <= 1
        /\ sleeps_after_exit = 1 => pc # "interruptible_wait"
        /\ pc \in {"interruptible_wait", "rnr_320", "loop", "on_shutdown",
                   "dispatch", "final_save", "done", "failed"}
        /\ pc = "dispatch" => disp_event = "on_shutdown"

C8_Step ==
    (cancelled_in_retry /\ pc' \notin {"killed", "load_state"}) =>
        /\ DiskDict' = DiskDict
        /\ persistent_state' = persistent_state
        /\ trace' \in {trace, Append(trace, <<"on_shutdown", None>>)}
        /\ UNCHANGED <<dataset_path, valid>>

\* C8: the cancelled retry wait ends after one sleep at most, and no later step
\* of the process downloads, dispatches a round event or changes the checkpoint.
C8_CancelInRetryWait == [](C8_State) /\ [][C8_Step]_vars

\* The cancelled retry wait was left and the daemon shut down.
C8_Witness == cancelled_in_retry /\ sleeps_after_exit = 1 /\ pc = "done"

\* C9: once the training data of round N was found not new, no step of the
\* round dispatches on_new_training_data(N) or changes last_round_trained, in
\* memory or in state.pickle.
C9_Step ==
    check_result = "old" =>
        /\ pc' # "load_state" =>
             DiskDict'.last_round_trained = DiskDict.last_round_trained
        /\ pc' \notin {"killed", "load_state"} =>
             /\ persistent_state'.last_round_trained
                  = persistent_state.last_round_trained
             /\ \A i \in 1 .. Len(trace') :
                  trace'[i] # <<"on_new_training_data", round_number>>

\* C9: every step taken after the comparison said not new satisfies C9_Step.
C9_NotNewLeavesTrained == [][C9_Step]_vars

\* Round 2 was processed with training data that is not new.
C9_Witness ==
    /\ pc = "loop"
    /\ round_number = 2
    /\ trace = <<<<"on_start", None>>, <<"on_round_begin", 1>>,
                 <<"on_new_training_data", 1>>, <<"on_new_tournament_data", 1>>,
                 <<"on_round_begin", 2>>, <<"on_new_tournament_data", 2>>>>
    /\ persistent_state = PState(2, 1)
    /\ DiskDict = PState(2, 1)

\* C10: on a first run with current round R the events start on_start,
\* on_round_begin(R), on_new_training_data(R), on_new_tournament_data(R);
\* last_round_trained = R is in state.pickle when on_new_tournament_data(R) is
\* dispatched, and after the round state.pickle holds {R, R}.
FirstRunEvents(R) ==
    <<<<"on_start", None>>, <<"on_round_begin", R>>,
      <<"on_new_training_data", R>>, <<"on_new_tournament_data", R>>>>

C10_Events ==
    IF trace # <<>> /\ trace[Len(trace)][1] = "on_shutdown"
    THEN SubSeq(trace, 1, Len(trace) - 1) ELSE trace

\* C10: the first-run events, up to a final on_shutdown, and the checkpoint
\* they leave.
C10_FirstRun ==
    (restarts = 0 /\ Len(C10_Events) >= 1) =>
        LET T == C10_Events
            R == IF Len(T) >= 2 THEN T[2][2] ELSE round_number
        IN  /\ \A i \in 1 .. Min(Len(T), 4) : T[i] = FirstRunEvents(R)[i]
            /\ (Len(T) \in 2 .. 3 => (R = round_number))
            /\ (Len(T) = 4 => (DiskDict.last_round_trained = R))
            /\ ((Len(T) = 4 /\ ~InRound
                   /\ ~(failure = "handler" /\ disp_event \in RoundEvents))
                 => (state_pickle = Pickled(PState(R, R))))

\* The first round of a first run has completed.
C10_Witness ==
    /\ restarts = 0
    /\ pc = "loop"
    /\ trace = FirstRunEvents(1)
    /\ state_pickle = Pickled(PState(1, 1))

\* The statements of run_new_round (and of the calls it makes).
InRunNewRound ==
    \/ pc \in {"download_and_check", "rnr_310", "rnr_320",
               "check_new_training_data", "save_trained", "save_processed"}
    \/ pc = "interruptible_wait" /\ wait_ret = "rnr_320"
    \/ pc = "dispatch" /\ disp_event \in RoundEvents

\* The step of lines 400-406: run_new_round is entered exactly when
\* last_round_processed is None or the current round is greater; otherwise
\* nothing is dispatched and the daemon loop (or, for an unanswered request, the
\* exception) follows.
C11_StartupStep ==
    (pc = "get_current_round" /\ pc' \notin {"get_current_round", "killed"}) =>
        LET lrp == persistent_state.last_round_processed
            runs == lrp = None \/ round_number' > lrp
        IN  /\ (pc' = "download_and_check") <=> runs
            /\ ~runs => (pc' \in {"loop", "failed"} /\ trace' = trace)

\* After the start run_new_round is entered only for the round that
\* wait_till_next_round returned, which differs from the round it waited out.
C11_AfterWaitStep ==
    (pc = "run_413" /\ pc' = "download_and_check") =>
        /\ new_round_info # None
        /\ new_round_info # round_info
        /\ round_number' = new_round_info

\* While run_new_round runs, its round is not a processed one.
C11_RoundNotProcessed ==
    InRunNewRound =>
        \/ persistent_state.last_round_processed = None
        \/ round_number > persistent_state.last_round_processed

\* C11: run() processes the current round at startup if and only if
\* last_round_processed is None or the current round is greater; for a round
\* already processed no round event is dispatched before wait_till_next_round
\* returns another round.
C11_StartupCatchUp ==
    /\ [](C11_RoundNotProcessed)
    /\ [][C11_StartupStep /\ C11_AfterWaitStep]_vars

\* A restarted daemon found its round processed and went to the daemon loop.
C11_Witness ==
    /\ restarts = 1
    /\ pc = "loop"
    /\ trace = <<<<"on_start", None>>>>
    /\ round_number # None
    /\ persistent_state.last_round_processed = round_number

\* C12: load_state never fails: for an absent state.pickle and for an empty,
\* truncated or corrupt one it leaves both fields None and run() goes on.
C12_LoadNeverFails ==
    /\ failure # "load_343"
    /\ (pc = "on_start" /\ state_pickle.kind # "ok")
         => persistent_state = PState(None, None)

\* The statements where an unanswered round-info request (None) raises
\* TypeError: the startup query (line 403, or line 285 on a first run), the
\* first query of wait_till_next_round (line 198) and its re-poll (line 231).
QueryFailures == {"run_403", "dac_285", "wtnr_198", "wtnr_231"}

\* C13: an unanswered round-info request never ends run(), at the startup query
\* and at every query of wait_till_next_round.
C13_QueryFailureNotFatal == failure \notin QueryFailures

\* C14: the handlers in self.event_handlers have pairwise distinct names
\* (add_event_handler refuses a handler whose name the list already holds).
C14_DistinctNames ==
    \A i, j \in 1 .. Len(event_handlers) :
        i # j => HandlerName(event_handlers[i]) # HandlerName(event_handlers[j])

\* A dispatch loop has ended (by its last handler's return or by an exception).
DispatchEnded == disp_event # "" /\ pc # "dispatch"

C15_Calls ==
    disp_event # "" =>
        /\ Len(calls) <= Len(event_handlers)
        /\ \A i \in 1 .. Len(calls) : calls[i] = event_handlers[i]
        /\ pc = "dispatch" => Len(calls) = disp_idx - 1
        /\ (DispatchEnded /\ failure # "handler") => calls = event_handlers
        /\ failure = "handler" => Len(calls) = disp_idx

\* add_event_handler puts the handler after the handlers already in the list.
C15_AddStep ==
    Len(event_handlers') > Len(event_handlers) =>
        /\ Len(event_handlers') = Len(event_handlers) + 1
        /\ \A i \in 1 .. Len(event_handlers) : event_handlers'[i] = event_handlers[i]

\* remove_event_handler keeps the handlers of the other names in their order:
\* the new list is the old one at increasing positions, which are exactly the
\* positions of the other names.
C15_RemoveStep ==
    (event_handlers' # event_handlers /\ Len(event_handlers') <= Len(event_handlers)) =>
        \E n \in HandlerNames :
          \E f \in [1 .. Len(event_handlers') -> 1 .. Len(event_handlers)] :
            /\ \A i, j \in DOMAIN f : i < j => f[i] < f[j]
            /\ \A i \in DOMAIN f : event_handlers'[i] = event_handlers[f[i]]
            /\ \A k \in 1 .. Len(event_handlers) :
                 (HandlerName(event_handlers[k]) # n) <=> (\E i \in DOMAIN f : f[i] = k)

RepollWaitBegins ==
    pc = "interruptible_wait" /\ wait_ret = "wtnr_224" /\ elapsed = 0

C17_InvalidFetchNotFatal ==
    /\ failure # "rnr_315"
    /\ (pc = "interruptible_wait" /\ wait_ret = "rnr_320") => ~zip_exists

\* C18: download_and_check raises nothing, for a failed request as for a local
\* failure while the dataset is written or unpacked: it returns False, and
\* run_new_round goes on at line 310.
C18_FetchNeverRaises ==
    /\ failure # "dac_282"
    /\ (pc = "rnr_310" /\ valid) => (dataset_path # None /\ zip_exists)

\* C19: state.pickle is never ahead of the events: last_round_trained = N is
\* in the file only if the on_new_training_data(N) loop ended (every handler
\* returned), last_round_processed = N only if the on_round_begin(N) and
\* on_new_tournament_data(N) loops ended, in this process or an earlier one.
C19_CheckpointNotAhead ==
    /\ DiskDict.last_round_trained # None =>
          <<"on_new_training_data", DiskDict.last_round_trained>> \in completed
    /\ DiskDict.last_round_processed # None =>
          /\ <<"on_round_begin", DiskDict.last_round_processed>> \in completed
          /\ <<"on_new_tournament_data", DiskDict.last_round_processed>> \in completed

\* The process was killed in round 2 after last_round_trained = 2 was saved.
C19_Witness ==
    /\ pc = "killed"
    /\ state_pickle = Pickled(PState(1, 2))

\* The step of lines 400-406 in a process that finds the current round not
\* recorded as processed: run_new_round follows.
C20_RerunStep ==
    (/\ pc = "get_current_round"
     /\ pc' \notin {"get_current_round", "killed"}
     /\ round_number' # None
     /\ DiskDict.last_round_processed # round_number')
        => pc' = "download_and_check"

\* The step of lines 148-157 for a round whose on_new_training_data an ended
\* process dispatched without last_round_trained being saved: the training
\* data is found new again and on_new_training_data is dispatched.
C20_RetrainStep ==
    (/\ pc = "check_new_training_data"
     /\ pc' \notin {"check_new_training_data", "killed"}
     /\ round_number \in begun
     /\ DiskDict.last_round_trained # round_number)
        => /\ trace[Len(trace)] = <<"on_round_begin", round_number>>
           /\ trace' = Append(trace, <<"on_new_training_data", round_number>>)

\* The same step for a round that state.pickle records as trained:
\* on_new_tournament_data follows on_round_begin, without on_new_training_data.
C20_NoRetrainStep ==
    (/\ pc = "check_new_training_data"
     /\ pc' \notin {"check_new_training_data", "killed"}
     /\ round_number # None
     /\ DiskDict.last_round_trained = round_number)
        => /\ trace[Len(trace)] = <<"on_round_begin", round_number>>
           /\ trace' = Append(trace, <<"on_new_tournament_data", round_number>>)

\* C20: a process started after a crash in round N, with N still the current
\* round, runs round N again; it dispatches on_new_training_data(N) again if
\* the crash came before last_round_trained = N was saved, and goes from
\* on_round_begin(N) to on_new_tournament_data(N) if it came after.
C20_CrashRecovery ==
    [][C20_RerunStep /\ C20_RetrainStep /\ C20_NoRetrainStep]_vars

\* The first process was killed during on_new_training_data(2); the second one
\* ran round 2 with on_new_training_data(2) and completed it.
C20_Witness ==
    /\ restarts = 1
    /\ 2 \in begun
    /\ pc = "loop"
    /\ trace = <<<<"on_start", None>>, <<"on_round_begin", 2>>,
                 <<"on_new_training_data", 2>>, <<"on_new_tournament_data", 2>>>>
    /\ state_pickle = Pickled(PState(2, 2))

\* --------------------------------------------------------------------- C21
\* The handlers called so far in the dispatch in progress (or the last one) are
\* the first handlers of the list as it was when the dispatch started.
C21_CalledFromSnapshot ==
    /\ Len(calls) <= Len(snapshot)
    /\ \A i \in 1 .. Len(calls) : calls[i] = snapshot[i]

\* C21: a dispatch calls the handlers that were registered when it started,
\* and no others: a handler registered by a callback of the dispatch is not
\* called in it, and one unregistered by a callback of the dispatch is.
C21_DispatchOverSnapshot ==
    disp_event # "" =>
        /\ C21_CalledFromSnapshot
        /\ (DispatchEnded /\ failure = "") => calls = snapshot

\* The half of C21 that the code keeps: a handler unregistered by a callback
\* of the dispatch is still called in it.
C21_RemovedStillCalled ==
    (DispatchEnded /\ failure = "") =>
        \A i \in 1 .. Len(snapshot) : \E j \in 1 .. Len(calls) : calls[j] = snapshot[i]

\* A dispatch has ended in which a callback unregistered a handler that was
\* called after that.
C21_RemovedWitness ==
    /\ DispatchEnded
    /\ rebound
    /\ calls = snapshot
    /\ Len(snapshot) > Len(event_handlers)

\* --------------------------------------------------------------------- C22
\* C22: the wait before each re-poll of the loop of lines 213-237 is strictly
\* positive, so that interruptible_wait sleeps at least once before the poll,
\* also when the close time has passed by more than 5 seconds.
C22_PositiveWaitBeforeRepoll == RepollWaitBegins => seconds > 0

\* --------------------------------------------------------------------- C23
\* The round N = round_number was processed to its end: its on_round_begin and
\* on_new_tournament_data loops ended and state.pickle names it as processed.
C23_RoundDone ==
    /\ <<"on_round_begin", round_number>> \in completed
    /\ <<"on_new_tournament_data", round_number>> \in completed
    /\ persistent_state.last_round_processed = round_number
    /\ DiskDict.last_round_processed = round_number

\* Once the round is left, it was processed to its end, and what follows is the
\* daemon loop's test, on_shutdown and the final save: no other round.
C23_State ==
    (cancelled_in_round /\ ~RoundInProgress /\ pc \notin {"killed", "failed"}) =>
        /\ C23_RoundDone
        /\ pc \in {"loop", "on_shutdown", "dispatch", "final_save", "done"}
        /\ pc = "dispatch" => disp_event = "on_shutdown"

\* While the round is in progress no step leaves it before the save of line
\* 332 (a handler that raises and a kill end the process), and no step changes
\* the round number.
C23_Step ==
    (cancelled_in_round /\ pc' \notin {"killed", "failed", "load_state"}) =>
        /\ round_number' = round_number
        /\ RoundInProgress => (RoundInProgress' \/ (pc = "save_processed" /\ pc' = "loop"))
        /\ Len(trace') > Len(trace) =>
              trace'[Len(trace')] \in
                  IF RoundInProgress
                  THEN {<<"on_round_begin", round_number>>,
                        <<"on_new_training_data", round_number>>,
                        <<"on_new_tournament_data", round_number>>}
                  ELSE {<<"on_shutdown", None>>}

\* C23: exit requested while round N is processed, after download_and_check
\* returned True for it: the remaining events of round N are dispatched and
\* last_round_processed = N is saved before on_shutdown is dispatched, and no
\* other round is started.
C23_CancelDoesNotPreemptRound == [](C23_State) /\ [][C23_Step]_vars

\* Exit was requested during the round, the round was processed to its end,
\* on_shutdown was dispatched after it and run() returned.
C23_Witness ==
    /\ cancelled_in_round
    /\ pc = "done"
    /\ C23_RoundDone
    /\ Len(trace) > 1
    /\ trace[Len(trace)] = <<"on_shutdown", None>>
    /\ trace[Len(trace) - 1] = <<"on_new_tournament_data", round_number>>

\* --------------------------------------------------------------------- C24
\* C24: state.pickle never names a last_round_processed while its
\* last_round_trained is None, whatever rounds, exit requests, failures, kills
\* and restarts happened since the first run without a file; nor does the
\* dictionary in memory.
C24_ProcessedImpliesTrained ==
    /\ DiskDict.last_round_processed # None => DiskDict.last_round_trained # None
    /\ persistent_state.last_round_processed # None =>
           persistent_state.last_round_trained # None

\* A restarted process has processed a round, and state.pickle names a round
\* as processed and one as trained.
C24_Witness ==
    /\ restarts > 0
    /\ pc = "loop"
    /\ state_pickle.kind = "ok"
    /\ DiskDict.last_round_processed = round_number
    /\ DiskDict.last_round_trained # None

====
